---- MODULE Spec2Model ----
\* State-machine model of the authentication form of src/src/pages/auth/AuthPage.tsx:
\* the field validators, the availability checkers, the password strength scorer
\* and the login/register submission workflow of the AuthPage component.
\*
\* Strings the code inspects character by character (field values) are sequences
\* of one-character strings; messages and titles the code only compares or
\* displays are TLA+ strings.
EXTENDS Integers, Sequences, FiniteSets, TLC

VARIABLES
    isLogin,          \* useState(true): login mode (TRUE) or register mode (FALSE)
    isLoading,        \* useState(false): a form submission is in flight
    isSocialLoading,  \* useState(null): provider of the pending social-auth call
    formData,         \* the five form fields
    errors,           \* field error map (NoError = no entry / undefined)
    emailValidation,  \* {isChecking, isValid, message} of the email field
    phoneValidation,  \* {isChecking, isValid, message} of the phone field
    emailChecks,      \* email availability checks in flight, in start order
    phoneChecks,      \* phone availability checks in flight, in start order
    subPc,            \* position of the running handleSubmit invocation
    sub,              \* what the running handleSubmit closed over (isLogin, formData)
    call,             \* identity-provider call in flight
    dialog,           \* title of the modal notification shown
    navigated,        \* navigate("/") has been called (the page is left)
    hash,             \* window.location.hash includes "type=signup"
    session,          \* provider of the session the listener was last told of
    listenerPc,       \* position of the running onAuthStateChange callback
    fnArg,            \* input of the pure function under check
    fnRes             \* its result

listenerVars == <<hash, session, listenerPc>>

vars == <<isLogin, isLoading, isSocialLoading, formData, errors, emailValidation,
          phoneValidation, emailChecks, phoneChecks, subPc, sub, call, dialog,
          navigated, fnArg, fnRes, listenerVars>>

formVars == <<isLogin, isLoading, isSocialLoading, formData, errors, emailValidation,
              phoneValidation, emailChecks, phoneChecks, subPc, sub, call, dialog,
              navigated, listenerVars>>

----------------------------------------------------------------------------
\* Bounds of the model.

\* Availability checks of one field that may be in flight at the same time.
MaxPending == 2
\* Longest password given to the strength scorer.
MaxPwLen == 8
\* Longest run of digits in a phone validator input.
MaxDigitRun == 16
\* Longest prefix and suffix put around that run.
MaxAffix == 2
\* Longest email given to the availability checker.
MaxEmailLen == 5

----------------------------------------------------------------------------
\* Character classes of the regular expressions.

UpperChars == {"A","B","C","D","E","F","G","H","I","J","K","L","M",
               "N","O","P","Q","R","S","T","U","V","W","X","Y","Z"}
LowerChars == {"a","b","c","d","e","f","g","h","i","j","k","l","m",
               "n","o","p","q","r","s","t","u","v","w","x","y","z"}
DigitChars == {"0","1","2","3","4","5","6","7","8","9"}
NonZeroDigitChars == DigitChars \ {"0"}
SpecialChars == {"!","@","#","$","%","^","&","*","(",")",",",".","?","\"",
                 ":","{","}","|","<",">"}
WhitespaceChars == {" ", "\t", "\n", "\r", "\f"}

\* String.prototype.toLowerCase on the letters of the model.
LowerOf(c) ==
    CASE c = "A" -> "a" [] c = "B" -> "b" [] c = "C" -> "c" [] c = "D" -> "d"
      [] c = "E" -> "e" [] c = "F" -> "f" [] c = "G" -> "g" [] c = "H" -> "h"
      [] c = "I" -> "i" [] c = "J" -> "j" [] c = "K" -> "k" [] c = "L" -> "l"
      [] c = "M" -> "m" [] c = "N" -> "n" [] c = "O" -> "o" [] c = "P" -> "p"
      [] c = "Q" -> "q" [] c = "R" -> "r" [] c = "S" -> "s" [] c = "T" -> "t"
      [] c = "U" -> "u" [] c = "V" -> "v" [] c = "W" -> "w" [] c = "X" -> "x"
      [] c = "Y" -> "y" [] c = "Z" -> "z" [] OTHER -> c

toLowerCase(s) == [i \in DOMAIN s |-> LowerOf(s[i])]

\* phone.replace(/\s/g, "")
StripWhitespace(s) == SelectSeq(s, LAMBDA c : c \notin WhitespaceChars)

\* RegExp.test of a character class somewhere in the string.
HasChar(s, class) == \E i \in DOMAIN s : s[i] \in class

----------------------------------------------------------------------------
\* Field validators.

\* /^[^\s@]+@[^\s@]+\.[^\s@]+$/ : some "@" at i and some "." at j split the
\* string into three non-empty parts free of whitespace and "@".
validateEmail(email) ==
    \E i \in DOMAIN email : \E j \in DOMAIN email :
        /\ email[i] = "@"
        /\ email[j] = "."
        /\ 1 < i
        /\ i + 1 < j
        /\ j < Len(email)
        /\ \A k \in DOMAIN email :
              k # i => email[k] \notin (WhitespaceChars \cup {"@"})

\* \d{lo,hi}$ from position i: the rest of the string is lo..hi digits.
RECURSIVE MatchDigitsToEnd(_, _, _, _)
MatchDigitsToEnd(s, i, lo, hi) ==
    IF i > Len(s) THEN lo <= 0
    ELSE IF hi <= 0 THEN FALSE
    ELSE IF s[i] \notin DigitChars THEN FALSE
    ELSE MatchDigitsToEnd(s, i + 1, lo - 1, hi - 1)

\* validatePhone testing the string as typed.
validatePhone_NoStrip(phone) ==
    LET start == IF Len(phone) > 0 /\ phone[1] = "+" THEN 2 ELSE 1
    IN  /\ start <= Len(phone)
        /\ phone[start] \in NonZeroDigitChars
        /\ MatchDigitsToEnd(phone, start + 1, 1, 14)

\* /^\+?[1-9]\d{1,14}$/ on the string without its whitespace.
validatePhone(phone) ==
    LET s == StripWhitespace(phone)
        start == IF Len(s) > 0 /\ s[1] = "+" THEN 2 ELSE 1
    IN  /\ start <= Len(s)
        /\ s[start] \in NonZeroDigitChars
        /\ MatchDigitsToEnd(s, start + 1, 1, 14)

----------------------------------------------------------------------------
\* Password strength scorer.

ScoreLabel(score) ==
    CASE score \in {0, 1} -> "Very Weak"
      [] score = 2 -> "Weak"
      [] score = 3 -> "Fair"
      [] score = 4 -> "Good"
      [] score = 5 -> "Strong"
      [] OTHER -> "Very Weak"

ScoreColor(score) ==
    CASE score \in {0, 1} -> "text-red-600"
      [] score = 2 -> "text-orange-600"
      [] score = 3 -> "text-yellow-600"
      [] score = 4 -> "text-blue-600"
      [] score = 5 -> "text-green-600"
      [] OTHER -> "text-red-600"

\* PasswordChecks with the length test off by one.
PasswordChecks_LengthOver8(password) ==
    [length    |-> Len(password) > 8,
     uppercase |-> HasChar(password, UpperChars),
     lowercase |-> HasChar(password, LowerChars),
     number    |-> HasChar(password, DigitChars),
     special   |-> HasChar(password, SpecialChars)]

PasswordChecks(password) ==
    [length    |-> Len(password) >= 8,
     uppercase |-> HasChar(password, UpperChars),
     lowercase |-> HasChar(password, LowerChars),
     number    |-> HasChar(password, DigitChars),
     special   |-> HasChar(password, SpecialChars)]

calculatePasswordStrength(password) ==
    LET checks == PasswordChecks(password)
        score  == Cardinality({k \in DOMAIN checks : checks[k]})
    IN  [score  |-> score,
         label  |-> ScoreLabel(score),
         color  |-> ScoreColor(score),
         checks |-> checks]

validatePassword(password) ==
    LET checks == calculatePasswordStrength(password).checks
    IN  checks.length /\ checks.uppercase /\ checks.lowercase
        /\ checks.number /\ checks.special

----------------------------------------------------------------------------
\* The data service and the availability checkers.

\* supabase.from("profiles").select("id").eq(column, value): the service either
\* reports an error or returns the rows whose column equals the value.
QueryProfiles(svc, column, value) ==
    IF svc.fails
    THEN [error |-> TRUE, data |-> {}]
    ELSE [error |-> FALSE, data |-> {p \in svc.profiles : p[column] = value}]

\* checkEmailAvailability querying with the email as typed.
checkEmailAvailability_NoLower(email, svc) ==
    IF ~validateEmail(email)
    THEN [isValid |-> FALSE, message |-> "Please enter a valid email format",
          queries |-> <<>>]
    ELSE LET q == [column |-> "email", value |-> email]
             r == QueryProfiles(svc, q.column, q.value)
         IN  IF r.error
             THEN [isValid |-> FALSE,
                   message |-> "Error checking email. Please try again.",
                   queries |-> <<q>>]
             ELSE IF Cardinality(r.data) > 0
             THEN [isValid |-> FALSE,
                   message |-> "This email is already registered",
                   queries |-> <<q>>]
             ELSE [isValid |-> TRUE, message |-> "Email is available",
                   queries |-> <<q>>]

\* The result carries, besides {isValid, message}, the queries the call made.
checkEmailAvailability(email, svc) ==
    IF ~validateEmail(email)
    THEN [isValid |-> FALSE, message |-> "Please enter a valid email format",
          queries |-> <<>>]
    ELSE LET q == [column |-> "email", value |-> toLowerCase(email)]
             r == QueryProfiles(svc, q.column, q.value)
         IN  IF r.error
             THEN [isValid |-> FALSE,
                   message |-> "Error checking email. Please try again.",
                   queries |-> <<q>>]
             ELSE IF Cardinality(r.data) > 0
             THEN [isValid |-> FALSE,
                   message |-> "This email is already registered",
                   queries |-> <<q>>]
             ELSE [isValid |-> TRUE, message |-> "Email is available",
                   queries |-> <<q>>]

\* checkPhoneAvailability without its "if (error)" branch.
checkPhoneAvailability_ErrorIgnored(phone, svc) ==
    IF Len(phone) = 0
    THEN [isValid |-> TRUE, message |-> "", queries |-> <<>>]
    ELSE IF ~validatePhone(phone)
    THEN [isValid |-> FALSE, message |-> "Please enter a valid phone number",
          queries |-> <<>>]
    ELSE LET q == [column |-> "phone", value |-> StripWhitespace(phone)]
             r == QueryProfiles(svc, q.column, q.value)
         IN  IF Cardinality(r.data) > 0
             THEN [isValid |-> FALSE,
                   message |-> "This phone number is already registered",
                   queries |-> <<q>>]
             ELSE [isValid |-> TRUE, message |-> "Phone number is available",
                   queries |-> <<q>>]

checkPhoneAvailability(phone, svc) ==
    IF Len(phone) = 0
    THEN [isValid |-> TRUE, message |-> "", queries |-> <<>>]
    ELSE IF ~validatePhone(phone)
    THEN [isValid |-> FALSE, message |-> "Please enter a valid phone number",
          queries |-> <<>>]
    ELSE LET q == [column |-> "phone", value |-> StripWhitespace(phone)]
             r == QueryProfiles(svc, q.column, q.value)
         IN  IF r.error
             THEN [isValid |-> FALSE,
                   message |-> "Error checking phone. Please try again.",
                   queries |-> <<q>>]
             ELSE IF Cardinality(r.data) > 0
             THEN [isValid |-> FALSE,
                   message |-> "This phone number is already registered",
                   queries |-> <<q>>]
             ELSE [isValid |-> TRUE, message |-> "Phone number is available",
                   queries |-> <<q>>]

----------------------------------------------------------------------------
\* Component state.

Fields == {"email", "password", "confirmPassword", "fullName", "phone"}

\* Fields rendered in register mode only ({!isLogin && ...}).
RegisterOnlyFields == {"confirmPassword", "fullName", "phone"}

EmptyString == <<>>

\* No entry in the error map (absent key, or a key set to undefined).
NoError == "<undefined>"

\* isValid: boolean | null
Null == "null"
TriState(b) == IF b THEN "true" ELSE "false"

NoDialog == "<none>"

EmptyFormData ==
    [email |-> EmptyString, password |-> EmptyString, confirmPassword |-> EmptyString,
     fullName |-> EmptyString, phone |-> EmptyString]

EmptyErrors == [f \in Fields |-> NoError]

\* No identity-provider call in flight.
NoCall ==
    [op |-> "<none>", email |-> EmptyString, password |-> EmptyString,
     fullName |-> EmptyString, phone |-> EmptyString]

\* No handleSubmit invocation is running.
NoClosure == [isLogin |-> TRUE, formData |-> EmptyFormData]

UnknownValidation == [isChecking |-> FALSE, isValid |-> Null, message |-> ""]

CheckingValidation ==
    [isChecking |-> TRUE, isValid |-> Null, message |-> "Checking availability..."]

\* JavaScript truthiness of an error-map entry.
Truthy(e) == e # NoError /\ e # ""

----------------------------------------------------------------------------
\* The values the user types, and the rows of the data service.

EmailFree   == <<"a", "@", "b", ".", "c">>
EmailTaken  == <<"T", "@", "b", ".", "c">>
EmailBad    == <<"a", "@", "b">>
PwStrong    == <<"P", "a", "s", "s", "w", "0", "r", "d", "!">>
PwWeak      == <<"p", "a", "s", "s", "w", "o", "r", "d">>
NameShort   == <<"A">>
NameOk      == <<"A", "l">>
PhoneFree   == <<"+", "6", "2", " ", "8">>

\* What the user types in Spec and SpecChecks ...
FieldValues ==
    [email           |-> {EmptyString, EmailFree, EmailTaken},
     password        |-> {EmptyString, PwStrong},
     confirmPassword |-> {EmptyString, PwStrong},
     fullName        |-> {EmptyString, NameOk},
     phone           |-> {EmptyString, PhoneFree}]

\* ... and in SpecForm.
FormFieldValues ==
    [email           |-> {EmptyString, EmailFree, EmailBad},
     password        |-> {EmptyString, PwStrong, PwWeak},
     confirmPassword |-> {EmptyString, PwStrong},
     fullName        |-> {EmptyString, NameShort, NameOk},
     phone           |-> {EmptyString}]

ProfilesTable ==
    {[email |-> <<"t", "@", "b", ".", "c">>, phone |-> <<"1", "2">>]}

\* The data service as a check finds it: reachable or failing.
Services == {[fails |-> f, profiles |-> ProfilesTable] : f \in BOOLEAN}

\* error.message values of a failed credential sign-in.
LoginErrorMessages ==
    {"Email not confirmed", "email not confirmed", "Invalid login credentials", ""}

NoProviderError == "<no error>"

----------------------------------------------------------------------------
\* validateForm: the error map it computes (newErrors) from the rendered state.

\* EmailError consulting the availability verdict in login mode too.
EmailError_AnyMode(fd, login, ev) ==
    LET base == IF Len(fd.email) = 0 THEN "Email is required"
                ELSE IF ~validateEmail(fd.email)
                THEN "Please enter a valid email address"
                ELSE IF ev.isValid = "false" THEN ev.message
                ELSE NoError
    IN  IF ~login /\ ev.isChecking
        THEN "Please wait while we check email availability"
        ELSE base

EmailError(fd, login, ev) ==
    LET base == IF Len(fd.email) = 0 THEN "Email is required"
                ELSE IF ~validateEmail(fd.email)
                THEN "Please enter a valid email address"
                ELSE IF ~login /\ ev.isValid = "false" THEN ev.message
                ELSE NoError
    IN  IF ~login /\ ev.isChecking
        THEN "Please wait while we check email availability"
        ELSE base

\* PasswordError enforcing the policy in login mode too.
PasswordError_AnyMode(fd, login) ==
    IF Len(fd.password) = 0 THEN "Password is required"
    ELSE IF ~validatePassword(fd.password)
    THEN "Password must meet all requirements"
    ELSE NoError

PasswordError(fd, login) ==
    IF Len(fd.password) = 0 THEN "Password is required"
    ELSE IF ~login /\ ~validatePassword(fd.password)
    THEN "Password must meet all requirements"
    ELSE NoError

\* FullNameError without the minimum length.
FullNameError_NoMinLength(fd, login) ==
    IF login THEN NoError
    ELSE IF Len(fd.fullName) = 0 THEN "Full name is required"
    ELSE NoError

FullNameError(fd, login) ==
    IF login THEN NoError
    ELSE IF Len(fd.fullName) = 0 THEN "Full name is required"
    ELSE IF Len(fd.fullName) < 2 THEN "Full name must be at least 2 characters"
    ELSE NoError

ConfirmPasswordError(fd, login) ==
    IF login THEN NoError
    ELSE IF Len(fd.confirmPassword) = 0 THEN "Please confirm your password"
    ELSE IF fd.password # fd.confirmPassword THEN "Passwords do not match"
    ELSE NoError

PhoneError(fd, login, pv) ==
    LET base == IF Len(fd.phone) = 0 THEN NoError
                ELSE IF ~validatePhone(fd.phone)
                THEN "Please enter a valid phone number"
                ELSE IF pv.isValid = "false" THEN pv.message
                ELSE NoError
    IN  IF login THEN NoError
        ELSE IF pv.isChecking
        THEN "Please wait while we check phone availability"
        ELSE base

validateForm(fd, login, ev, pv) ==
    [email           |-> EmailError(fd, login, ev),
     password        |-> PasswordError(fd, login),
     confirmPassword |-> ConfirmPasswordError(fd, login),
     fullName        |-> FullNameError(fd, login),
     phone           |-> PhoneError(fd, login, pv)]

\* Object.keys(newErrors).length === 0
NoErrors(newErrors) == \A f \in Fields : newErrors[f] = NoError

----------------------------------------------------------------------------
\* Initial state: the component as first rendered.

ComponentInit ==
    /\ isLogin = TRUE
    /\ isLoading = FALSE
    /\ isSocialLoading = Null
    /\ formData = EmptyFormData
    /\ errors = EmptyErrors
    /\ emailValidation = UnknownValidation
    /\ phoneValidation = UnknownValidation
    /\ emailChecks = <<>>
    /\ phoneChecks = <<>>
    /\ subPc = "idle"
    /\ sub = NoClosure
    /\ call = NoCall
    /\ dialog = NoDialog
    /\ navigated = FALSE
    /\ session = Null
    /\ listenerPc = "idle"

\* The page opened by its plain address: no verification marker in the URL.
FormInit ==
    /\ ComponentInit
    /\ hash = FALSE

\* No pure function has been applied.
NotApplied == [done |-> FALSE]

Init ==
    /\ FormInit
    /\ fnArg = EmptyString
    /\ fnRes = NotApplied

\* The page is shown and no modal notification covers the form.
Interactive == ~navigated /\ dialog = NoDialog

RemoveAt(s, i) == SubSeq(s, 1, i - 1) \o SubSeq(s, i + 1, Len(s))

----------------------------------------------------------------------------
\* resetForm, as the assignments it makes.

ResetFormState ==
    /\ formData' = EmptyFormData
    /\ errors' = EmptyErrors
    /\ emailValidation' = UnknownValidation
    /\ phoneValidation' = UnknownValidation

\* toggleMode: the footer "Sign up" / "Sign in" link.
ToggleMode ==
    /\ Interactive
    /\ ~isLoading
    /\ isSocialLoading = Null
    /\ isLogin' = ~isLogin
    /\ ResetFormState
    /\ UNCHANGED <<isLoading, isSocialLoading, emailChecks, phoneChecks, subPc, sub,
                   call, dialog, navigated, fnArg, fnRes, listenerVars>>

\* The Login / Register tab buttons: setIsLogin(target) and nothing else.
TabSwitch(target) ==
    /\ Interactive
    /\ ~isLoading
    /\ isSocialLoading = Null
    /\ target # isLogin
    /\ isLogin' = target
    /\ UNCHANGED <<isLoading, isSocialLoading, formData, errors, emailValidation,
                   phoneValidation, emailChecks, phoneChecks, subPc, sub, call,
                   dialog, navigated, fnArg, fnRes, listenerVars>>

----------------------------------------------------------------------------
\* handleInputChange(field, value), up to its first await.

\* HandleInputChange clearing the whole error map instead of one entry.
HandleInputChange_ClearsAllErrors(field, value) ==
    /\ Interactive
    /\ field \in RegisterOnlyFields => ~isLogin
    /\ value # formData[field]
    /\ formData' = [formData EXCEPT ![field] = value]
    /\ errors' = IF Truthy(errors[field]) THEN EmptyErrors ELSE errors
    /\ IF field = "email" /\ ~isLogin /\ Len(value) > 0
       THEN /\ Len(emailChecks) + Len(phoneChecks) < MaxPending
            /\ emailValidation' = CheckingValidation
            /\ emailChecks' = Append(emailChecks, value)
       ELSE /\ emailValidation' =
                 IF field = "email" /\ (isLogin \/ Len(value) = 0)
                 THEN UnknownValidation
                 ELSE emailValidation
            /\ UNCHANGED emailChecks
    /\ IF field = "phone" /\ ~isLogin /\ Len(value) > 0
       THEN /\ Len(emailChecks) + Len(phoneChecks) < MaxPending
            /\ phoneValidation' = CheckingValidation
            /\ phoneChecks' = Append(phoneChecks, value)
       ELSE /\ phoneValidation' =
                 IF field = "phone" /\ (isLogin \/ Len(value) = 0)
                 THEN UnknownValidation
                 ELSE phoneValidation
            /\ UNCHANGED phoneChecks
    /\ UNCHANGED <<isLogin, isLoading, isSocialLoading, subPc, sub, call, dialog,
                   navigated, fnArg, fnRes, listenerVars>>

HandleInputChange(field, value) ==
    /\ Interactive
    /\ field \in RegisterOnlyFields => ~isLogin
    /\ value # formData[field]
    /\ formData' = [formData EXCEPT ![field] = value]
    /\ errors' = IF Truthy(errors[field])
                 THEN [errors EXCEPT ![field] = NoError]
                 ELSE errors
    /\ IF field = "email" /\ ~isLogin /\ Len(value) > 0
       THEN /\ Len(emailChecks) + Len(phoneChecks) < MaxPending
            /\ emailValidation' = CheckingValidation
            /\ emailChecks' = Append(emailChecks, value)
       ELSE /\ emailValidation' =
                 IF field = "email" /\ (isLogin \/ Len(value) = 0)
                 THEN UnknownValidation
                 ELSE emailValidation
            /\ UNCHANGED emailChecks
    /\ IF field = "phone" /\ ~isLogin /\ Len(value) > 0
       THEN /\ Len(emailChecks) + Len(phoneChecks) < MaxPending
            /\ phoneValidation' = CheckingValidation
            /\ phoneChecks' = Append(phoneChecks, value)
       ELSE /\ phoneValidation' =
                 IF field = "phone" /\ (isLogin \/ Len(value) = 0)
                 THEN UnknownValidation
                 ELSE phoneValidation
            /\ UNCHANGED phoneChecks
    /\ UNCHANGED <<isLogin, isLoading, isSocialLoading, subPc, sub, call, dialog,
                   navigated, fnArg, fnRes, listenerVars>>

\* EmailCheckSettles with a sequence guard: only the most recently started
\* check applies its result, an older one is dropped.
EmailCheckSettles_LatestOnly(i, svc) ==
    /\ ~navigated
    /\ i \in DOMAIN emailChecks
    /\ LET result == checkEmailAvailability(emailChecks[i], svc)
       IN  emailValidation' =
              IF i = Len(emailChecks)
              THEN [isChecking |-> FALSE,
                    isValid    |-> TriState(result.isValid),
                    message    |-> result.message]
              ELSE emailValidation
    /\ emailChecks' = RemoveAt(emailChecks, i)
    /\ UNCHANGED <<isLogin, isLoading, isSocialLoading, formData, errors,
                   phoneValidation, phoneChecks, subPc, sub, call, dialog,
                   navigated, fnArg, fnRes, listenerVars>>

\* The continuation of handleInputChange("email", v) after
\* await checkEmailAvailability(v): the i-th check in flight settles.
EmailCheckSettles(i, svc) ==
    /\ ~navigated
    /\ i \in DOMAIN emailChecks
    /\ LET result == checkEmailAvailability(emailChecks[i], svc)
       IN  emailValidation' = [isChecking |-> FALSE,
                               isValid    |-> TriState(result.isValid),
                               message    |-> result.message]
    /\ emailChecks' = RemoveAt(emailChecks, i)
    /\ UNCHANGED <<isLogin, isLoading, isSocialLoading, formData, errors,
                   phoneValidation, phoneChecks, subPc, sub, call, dialog,
                   navigated, fnArg, fnRes, listenerVars>>

PhoneCheckSettles(i, svc) ==
    /\ ~navigated
    /\ i \in DOMAIN phoneChecks
    /\ LET result == checkPhoneAvailability(phoneChecks[i], svc)
       IN  phoneValidation' = [isChecking |-> FALSE,
                               isValid    |-> TriState(result.isValid),
                               message    |-> result.message]
    /\ phoneChecks' = RemoveAt(phoneChecks, i)
    /\ UNCHANGED <<isLogin, isLoading, isSocialLoading, formData, errors,
                   emailValidation, emailChecks, subPc, sub, call, dialog,
                   navigated, fnArg, fnRes, listenerVars>>

----------------------------------------------------------------------------
\* handleSubmit.
\*
\* Swal.fire closes a dialog that is still open and its promise resolves as
\* dismissed; a step that fires a dialog is taken here once the dialog before
\* it has closed.

\* The submit event: validateForm, then either the "Validation Error" dialog
\* and return, or setIsLoading(true) and the 1500 ms delay. The invocation
\* keeps the isLogin and formData of the render it was created in.
HandleSubmit ==
    /\ Interactive
    /\ ~isLoading
    /\ isSocialLoading = Null
    /\ LET newErrors == validateForm(formData, isLogin, emailValidation, phoneValidation)
       IN  /\ errors' = newErrors
           /\ IF NoErrors(newErrors)
              THEN /\ isLoading' = TRUE
                   /\ subPc' = "delay"
                   /\ sub' = [isLogin |-> isLogin, formData |-> formData]
                   /\ UNCHANGED dialog
              ELSE /\ dialog' = "Validation Error"
                   /\ UNCHANGED <<isLoading, subPc, sub>>
    /\ UNCHANGED <<isLogin, isSocialLoading, formData, emailValidation,
                   phoneValidation, emailChecks, phoneChecks, call, navigated,
                   fnArg, fnRes, listenerVars>>

\* The "Validation Error" dialog is closed; nothing awaits it.
DismissValidationError ==
    /\ ~navigated
    /\ dialog = "Validation Error"
    /\ dialog' = NoDialog
    /\ UNCHANGED <<isLogin, isLoading, isSocialLoading, formData, errors,
                   emailValidation, phoneValidation, emailChecks, phoneChecks,
                   subPc, sub, call, navigated, fnArg, fnRes, listenerVars>>

\* ProviderCall reading the state as rendered when the delay ends, not the
\* state handleSubmit was created with.
ProviderCall_ReadsCurrentState ==
    /\ ~navigated
    /\ subPc = "delay"
    /\ IF isLogin
       THEN /\ call' = [NoCall EXCEPT !.op = "signInWithPassword",
                                      !.email = formData.email,
                                      !.password = formData.password]
            /\ subPc' = "signIn"
       ELSE /\ call' = [op       |-> "signUp",
                        email    |-> formData.email,
                        password |-> formData.password,
                        fullName |-> formData.fullName,
                        phone    |-> formData.phone]
            /\ subPc' = "signUp"
    /\ UNCHANGED <<isLogin, isLoading, isSocialLoading, formData, errors,
                   emailValidation, phoneValidation, emailChecks, phoneChecks,
                   sub, dialog, navigated, fnArg, fnRes, listenerVars>>

\* The delay is over: the call to the identity provider is made.
ProviderCall ==
    /\ ~navigated
    /\ subPc = "delay"
    /\ IF sub.isLogin
       THEN /\ call' = [NoCall EXCEPT !.op = "signInWithPassword",
                                      !.email = sub.formData.email,
                                      !.password = sub.formData.password]
            /\ subPc' = "signIn"
       ELSE /\ call' = [op       |-> "signUp",
                        email    |-> sub.formData.email,
                        password |-> sub.formData.password,
                        fullName |-> sub.formData.fullName,
                        phone    |-> sub.formData.phone]
            /\ subPc' = "signUp"
    /\ UNCHANGED <<isLogin, isLoading, isSocialLoading, formData, errors,
                   emailValidation, phoneValidation, emailChecks, phoneChecks,
                   sub, dialog, navigated, fnArg, fnRes, listenerVars>>

\* SignInReturns with every error shown by the generic dialog.
SignInReturns_AllGeneric(msg) ==
    /\ ~navigated
    /\ subPc = "signIn"
    /\ dialog = NoDialog
    /\ call' = NoCall
    /\ IF msg = NoProviderError
       THEN /\ dialog' = "Login berhasil!"
            /\ isLoading' = FALSE
            /\ subPc' = "idle"
            /\ sub' = NoClosure
       ELSE /\ dialog' = "Login Failed"
            /\ subPc' = "awaitDialog"
            /\ UNCHANGED <<isLoading, sub>>
    /\ UNCHANGED <<isLogin, isSocialLoading, formData, errors, emailValidation,
                   phoneValidation, emailChecks, phoneChecks, navigated, fnArg, fnRes, listenerVars>>

\* signInWithPassword returns, with error.message = msg or without error.
SignInReturns(msg) ==
    /\ ~navigated
    /\ subPc = "signIn"
    /\ dialog = NoDialog
    /\ call' = NoCall
    /\ IF msg = NoProviderError
       THEN \* the success dialog is not awaited: setIsLoading(false) follows at once
            /\ dialog' = "Login berhasil!"
            /\ isLoading' = FALSE
            /\ subPc' = "idle"
            /\ sub' = NoClosure
       ELSE IF msg = "Email not confirmed"
       THEN /\ dialog' = "Email Not Confirmed"
            /\ subPc' = "offerResend"
            /\ UNCHANGED <<isLoading, sub>>
       ELSE /\ dialog' = "Login Failed"
            /\ subPc' = "awaitDialog"
            /\ UNCHANGED <<isLoading, sub>>
    /\ UNCHANGED <<isLogin, isSocialLoading, formData, errors, emailValidation,
                   phoneValidation, emailChecks, phoneChecks, navigated, fnArg, fnRes, listenerVars>>

\* The user answers the resend offer: "Resend Verification Email" or "OK".
AnswerResendOffer(didRequestResend) ==
    /\ ~navigated
    /\ subPc = "offerResend"
    /\ dialog' = NoDialog
    /\ IF didRequestResend
       THEN /\ call' = [NoCall EXCEPT !.op = "resend", !.email = sub.formData.email]
            /\ subPc' = "resend"
            /\ UNCHANGED <<isLoading, sub>>
       ELSE /\ isLoading' = FALSE
            /\ subPc' = "idle"
            /\ sub' = NoClosure
            /\ UNCHANGED call
    /\ UNCHANGED <<isLogin, isSocialLoading, formData, errors, emailValidation,
                   phoneValidation, emailChecks, phoneChecks, navigated, fnArg, fnRes, listenerVars>>

\* supabase.auth.resend returns.
ResendReturns(failed) ==
    /\ ~navigated
    /\ subPc = "resend"
    /\ dialog = NoDialog
    /\ call' = NoCall
    /\ dialog' = IF failed THEN "Resend Failed" ELSE "Verification Email Sent!"
    /\ subPc' = "awaitDialog"
    /\ UNCHANGED <<isLogin, isLoading, isSocialLoading, formData, errors,
                   emailValidation, phoneValidation, emailChecks, phoneChecks,
                   sub, navigated, fnArg, fnRes, listenerVars>>

\* signUp returns.
SignUpReturns(failed) ==
    /\ ~navigated
    /\ subPc = "signUp"
    /\ dialog = NoDialog
    /\ call' = NoCall
    /\ dialog' = IF failed THEN "Registration Failed" ELSE "Registration Successful!"
    /\ subPc' = "awaitDialog"
    /\ UNCHANGED <<isLogin, isLoading, isSocialLoading, formData, errors,
                   emailValidation, phoneValidation, emailChecks, phoneChecks,
                   sub, navigated, fnArg, fnRes, listenerVars>>

\* AwaitedDialogCloses returning after a failure dialog without
\* setIsLoading(false).
AwaitedDialogCloses_ReturnsOnFailure ==
    /\ ~navigated
    /\ subPc = "awaitDialog"
    /\ dialog' = NoDialog
    /\ IF dialog = "Registration Successful!"
       THEN /\ isLogin' = TRUE
            /\ ResetFormState
            /\ isLoading' = FALSE
       ELSE UNCHANGED <<isLogin, formData, errors, emailValidation, phoneValidation,
                        isLoading>>
    /\ subPc' = "idle"
    /\ sub' = NoClosure
    /\ UNCHANGED <<isSocialLoading, emailChecks, phoneChecks, call, navigated,
                   fnArg, fnRes, listenerVars>>

\* AwaitedDialogCloses going to the home route after a registration.
AwaitedDialogCloses_NavigatesAfterSignUp ==
    /\ ~navigated
    /\ subPc = "awaitDialog"
    /\ dialog' = NoDialog
    /\ IF dialog = "Registration Successful!"
       THEN /\ isLogin' = TRUE
            /\ ResetFormState
            /\ navigated' = TRUE
       ELSE UNCHANGED <<isLogin, formData, errors, emailValidation, phoneValidation,
                        navigated>>
    /\ isLoading' = FALSE
    /\ subPc' = "idle"
    /\ sub' = NoClosure
    /\ UNCHANGED <<isSocialLoading, emailChecks, phoneChecks, call,
                   fnArg, fnRes, listenerVars>>

\* AwaitedDialogCloses without resetForm() after a registration.
AwaitedDialogCloses_NoReset ==
    /\ ~navigated
    /\ subPc = "awaitDialog"
    /\ dialog' = NoDialog
    /\ isLogin' = IF dialog = "Registration Successful!" THEN TRUE ELSE isLogin
    /\ isLoading' = FALSE
    /\ subPc' = "idle"
    /\ sub' = NoClosure
    /\ UNCHANGED <<isSocialLoading, formData, errors, emailValidation,
                   phoneValidation, emailChecks, phoneChecks, call, navigated,
                   fnArg, fnRes, listenerVars>>

\* AwaitedDialogCloses with resetForm() after every dialog.
AwaitedDialogCloses_ResetsAlways ==
    /\ ~navigated
    /\ subPc = "awaitDialog"
    /\ dialog' = NoDialog
    /\ isLogin' = IF dialog = "Registration Successful!" THEN TRUE ELSE isLogin
    /\ ResetFormState
    /\ isLoading' = FALSE
    /\ subPc' = "idle"
    /\ sub' = NoClosure
    /\ UNCHANGED <<isSocialLoading, emailChecks, phoneChecks, call, navigated,
                   fnArg, fnRes, listenerVars>>

\* An awaited dialog closes and handleSubmit runs to its end: after a
\* successful registration setIsLogin(true) and resetForm(), and in every
\* case setIsLoading(false).
AwaitedDialogCloses ==
    /\ ~navigated
    /\ subPc = "awaitDialog"
    /\ dialog' = NoDialog
    /\ IF dialog = "Registration Successful!"
       THEN /\ isLogin' = TRUE
            /\ ResetFormState
       ELSE UNCHANGED <<isLogin, formData, errors, emailValidation, phoneValidation>>
    /\ isLoading' = FALSE
    /\ subPc' = "idle"
    /\ sub' = NoClosure
    /\ UNCHANGED <<isSocialLoading, emailChecks, phoneChecks, call, navigated,
                   fnArg, fnRes, listenerVars>>

\* The login success dialog closes (2 s timer): resetForm() and navigate("/").
LoginSuccessCloses ==
    /\ ~navigated
    /\ dialog = "Login berhasil!"
    /\ listenerPc # "socialNotice"
    /\ dialog' = NoDialog
    /\ ResetFormState
    /\ navigated' = TRUE
    /\ UNCHANGED <<isLogin, isLoading, isSocialLoading, emailChecks, phoneChecks,
                   subPc, sub, call, fnArg, fnRes, listenerVars>>

----------------------------------------------------------------------------
\* handleSocialAuth.

SocialProviders == {"google", "facebook"}

\* HandleSocialAuth with buttons that look at isSocialLoading only.
HandleSocialAuth_IgnoresLoading(provider) ==
    /\ Interactive
    /\ isSocialLoading = Null
    /\ isSocialLoading' = provider
    /\ UNCHANGED <<isLogin, isLoading, formData, errors, emailValidation,
                   phoneValidation, emailChecks, phoneChecks, subPc, sub, call,
                   dialog, navigated, fnArg, fnRes, listenerVars>>

\* A click on a provider's button: setIsSocialLoading(provider) and the call
\* to signInWithOAuth. The buttons are disabled while either flag is set.
HandleSocialAuth(provider) ==
    /\ Interactive
    /\ isSocialLoading = Null
    /\ ~isLoading
    /\ isSocialLoading' = provider
    /\ UNCHANGED <<isLogin, isLoading, formData, errors, emailValidation,
                   phoneValidation, emailChecks, phoneChecks, subPc, sub, call,
                   dialog, navigated, fnArg, fnRes, listenerVars>>

\* signInWithOAuth returns: on error the failure dialog is awaited, otherwise
\* the finally block runs at once.
SocialAuthReturns(failed) ==
    /\ ~navigated
    /\ isSocialLoading # Null
    /\ dialog = NoDialog
    /\ IF failed
       THEN /\ dialog' = "Authentication Failed"
            /\ UNCHANGED isSocialLoading
       ELSE /\ isSocialLoading' = Null
            /\ UNCHANGED dialog
    /\ UNCHANGED <<isLogin, isLoading, formData, errors, emailValidation,
                   phoneValidation, emailChecks, phoneChecks, subPc, sub, call,
                   navigated, fnArg, fnRes, listenerVars>>

SocialFailureCloses ==
    /\ ~navigated
    /\ dialog = "Authentication Failed"
    /\ dialog' = NoDialog
    /\ isSocialLoading' = Null
    /\ UNCHANGED <<isLogin, isLoading, formData, errors, emailValidation,
                   phoneValidation, emailChecks, phoneChecks, subPc, sub, call,
                   navigated, fnArg, fnRes, listenerVars>>

----------------------------------------------------------------------------
\* The onAuthStateChange callback registered by useEffect.

SessionEvents == {"INITIAL_SESSION", "SIGNED_IN"}

\* session.user.app_metadata.provider of the session an event carries.
SessionProviders == {"email", "google"}

\* AuthStateChange showing the notice without the forced sign-out.
AuthStateChange_NoSignOut(event, provider) ==
    /\ ~navigated
    /\ listenerPc = "idle"
    /\ session' = provider
    /\ IF event = "INITIAL_SESSION"
       THEN /\ session = Null
            /\ UNCHANGED <<hash, listenerPc, dialog>>
       ELSE IF hash
       THEN /\ dialog = NoDialog
            /\ hash' = FALSE
            /\ dialog' = "Akun terverifikasi"
            /\ listenerPc' = "verifiedNotice"
       ELSE IF provider # "email"
       THEN /\ dialog = NoDialog
            /\ dialog' = "Login berhasil!"
            /\ listenerPc' = "socialNotice"
            /\ UNCHANGED hash
       ELSE UNCHANGED <<hash, listenerPc, dialog>>
    /\ UNCHANGED <<isLogin, isLoading, isSocialLoading, formData, errors,
                   emailValidation, phoneValidation, emailChecks, phoneChecks,
                   subPc, sub, call, navigated, fnArg, fnRes>>

\* The identity client reports a session event. INITIAL_SESSION (a stored
\* session found when the page loads) returns at once. SIGNED_IN with the
\* verification marker in the URL: replaceState, then await signOut().
\* SIGNED_IN of a social provider: the success dialog. SIGNED_IN of the
\* email provider is left to handleSubmit.
\* Events are taken one at a time: the next one is delivered when the callback
\* before it has run to its end.
AuthStateChange(event, provider) ==
    /\ ~navigated
    /\ listenerPc = "idle"
    /\ session' = provider
    /\ IF event = "INITIAL_SESSION"
       THEN /\ session = Null
            /\ UNCHANGED <<hash, listenerPc, dialog>>
       ELSE IF hash
       THEN /\ hash' = FALSE
            /\ listenerPc' = "signOut"
            /\ UNCHANGED dialog
       ELSE IF provider # "email"
       THEN /\ dialog = NoDialog
            /\ dialog' = "Login berhasil!"
            /\ listenerPc' = "socialNotice"
            /\ UNCHANGED hash
       ELSE UNCHANGED <<hash, listenerPc, dialog>>
    /\ UNCHANGED <<isLogin, isLoading, isSocialLoading, formData, errors,
                   emailValidation, phoneValidation, emailChecks, phoneChecks,
                   subPc, sub, call, navigated, fnArg, fnRes>>

\* supabase.auth.signOut() returns: the "verified" notice is shown.
SignOutReturns ==
    /\ ~navigated
    /\ listenerPc = "signOut"
    /\ dialog = NoDialog
    /\ session' = Null
    /\ dialog' = "Akun terverifikasi"
    /\ listenerPc' = "verifiedNotice"
    /\ UNCHANGED <<isLogin, isLoading, isSocialLoading, formData, errors,
                   emailValidation, phoneValidation, emailChecks, phoneChecks,
                   subPc, sub, call, navigated, hash, fnArg, fnRes>>

\* The "verified" notice closes: setIsLogin(true).
VerifiedNoticeCloses ==
    /\ ~navigated
    /\ listenerPc = "verifiedNotice"
    /\ dialog' = NoDialog
    /\ isLogin' = TRUE
    /\ listenerPc' = "idle"
    /\ UNCHANGED <<isLoading, isSocialLoading, formData, errors,
                   emailValidation, phoneValidation, emailChecks, phoneChecks,
                   subPc, sub, call, navigated, hash, session, fnArg, fnRes>>

\* The listener's login success dialog closes (2 s timer): navigate("/").
SocialSuccessCloses ==
    /\ ~navigated
    /\ listenerPc = "socialNotice"
    /\ dialog' = NoDialog
    /\ navigated' = TRUE
    /\ listenerPc' = "idle"
    /\ UNCHANGED <<isLogin, isLoading, isSocialLoading, formData, errors,
                   emailValidation, phoneValidation, emailChecks, phoneChecks,
                   subPc, sub, call, hash, session, fnArg, fnRes>>

----------------------------------------------------------------------------
\* The component on a page that receives no session event.

Next ==
    \/ ToggleMode
    \/ \E target \in BOOLEAN : TabSwitch(target)
    \/ \E field \in Fields : \E value \in FieldValues[field] :
          HandleInputChange(field, value)
    \/ \E i \in 1..MaxPending : \E svc \in Services : EmailCheckSettles(i, svc)
    \/ \E i \in 1..MaxPending : \E svc \in Services : PhoneCheckSettles(i, svc)
    \/ HandleSubmit
    \/ DismissValidationError
    \/ ProviderCall
    \/ \E msg \in LoginErrorMessages \cup {NoProviderError} : SignInReturns(msg)
    \/ \E didRequestResend \in BOOLEAN : AnswerResendOffer(didRequestResend)
    \/ \E failed \in BOOLEAN : ResendReturns(failed)
    \/ \E failed \in BOOLEAN : SignUpReturns(failed)
    \/ AwaitedDialogCloses
    \/ LoginSuccessCloses
    \/ \E provider \in SocialProviders : HandleSocialAuth(provider)
    \/ \E failed \in BOOLEAN : SocialAuthReturns(failed)
    \/ SocialFailureCloses

Spec == Init /\ [][Next]_vars

\* The component with the values of FormFieldValues typed: the phone field is
\* left empty, so no phone check is ever in flight.
NextForm ==
    \/ ToggleMode
    \/ \E target \in BOOLEAN : TabSwitch(target)
    \/ \E field \in Fields : \E value \in FormFieldValues[field] :
          HandleInputChange(field, value)
    \/ \E i \in 1..MaxPending : \E svc \in Services : EmailCheckSettles(i, svc)
    \/ HandleSubmit
    \/ DismissValidationError
    \/ ProviderCall
    \/ \E msg \in LoginErrorMessages \cup {NoProviderError} : SignInReturns(msg)
    \/ \E didRequestResend \in BOOLEAN : AnswerResendOffer(didRequestResend)
    \/ \E failed \in BOOLEAN : ResendReturns(failed)
    \/ \E failed \in BOOLEAN : SignUpReturns(failed)
    \/ AwaitedDialogCloses
    \/ LoginSuccessCloses
    \/ \E provider \in SocialProviders : HandleSocialAuth(provider)
    \/ \E failed \in BOOLEAN : SocialAuthReturns(failed)
    \/ SocialFailureCloses

SpecForm == Init /\ [][NextForm]_vars

\* SpecForm with the progress the submission relies on: the 1500 ms timer
\* fires, every call to the identity provider returns, and the user closes
\* (or the 2 s timer closes) every dialog handleSubmit awaits.
SubmitFairness ==
    /\ WF_vars(ProviderCall)
    /\ WF_vars(\E msg \in LoginErrorMessages \cup {NoProviderError} : SignInReturns(msg))
    /\ WF_vars(\E didRequestResend \in BOOLEAN : AnswerResendOffer(didRequestResend))
    /\ WF_vars(\E failed \in BOOLEAN : ResendReturns(failed))
    /\ WF_vars(\E failed \in BOOLEAN : SignUpReturns(failed))
    /\ WF_vars(AwaitedDialogCloses)

SpecFormLive == SpecForm /\ SubmitFairness

\* The component with the values of FieldValues typed and the social buttons
\* left alone.
NextChecks ==
    \/ ToggleMode
    \/ \E target \in BOOLEAN : TabSwitch(target)
    \/ \E field \in Fields : \E value \in FieldValues[field] :
          HandleInputChange(field, value)
    \/ \E i \in 1..MaxPending : \E svc \in Services : EmailCheckSettles(i, svc)
    \/ \E i \in 1..MaxPending : \E svc \in Services : PhoneCheckSettles(i, svc)
    \/ HandleSubmit
    \/ DismissValidationError
    \/ ProviderCall
    \/ \E msg \in LoginErrorMessages \cup {NoProviderError} : SignInReturns(msg)
    \/ \E didRequestResend \in BOOLEAN : AnswerResendOffer(didRequestResend)
    \/ \E failed \in BOOLEAN : ResendReturns(failed)
    \/ \E failed \in BOOLEAN : SignUpReturns(failed)
    \/ AwaitedDialogCloses
    \/ LoginSuccessCloses

SpecChecks == Init /\ [][NextChecks]_vars

\* The component together with the session events of the identity client.
\* The page may have been opened by a verification link.
AuthFieldValues ==
    [email           |-> {EmptyString, EmailFree},
     password        |-> {EmptyString, PwStrong},
     confirmPassword |-> {EmptyString, PwStrong},
     fullName        |-> {EmptyString, NameOk},
     phone           |-> {EmptyString}]

AuthInit ==
    /\ ComponentInit
    /\ hash \in BOOLEAN
    /\ fnArg = EmptyString
    /\ fnRes = NotApplied

NextAuth ==
    \/ \E event \in SessionEvents : \E provider \in SessionProviders :
          AuthStateChange(event, provider)
    \/ SignOutReturns
    \/ VerifiedNoticeCloses
    \/ SocialSuccessCloses
    \/ ToggleMode
    \/ \E target \in BOOLEAN : TabSwitch(target)
    \/ \E field \in Fields : \E value \in AuthFieldValues[field] :
          HandleInputChange(field, value)
    \/ \E i \in 1..MaxPending : \E svc \in Services : EmailCheckSettles(i, svc)
    \/ HandleSubmit
    \/ DismissValidationError
    \/ ProviderCall
    \/ \E msg \in LoginErrorMessages \cup {NoProviderError} : SignInReturns(msg)
    \/ \E didRequestResend \in BOOLEAN : AnswerResendOffer(didRequestResend)
    \/ \E failed \in BOOLEAN : ResendReturns(failed)
    \/ \E failed \in BOOLEAN : SignUpReturns(failed)
    \/ AwaitedDialogCloses
    \/ LoginSuccessCloses
    \/ \E provider \in SocialProviders : HandleSocialAuth(provider)
    \/ \E failed \in BOOLEAN : SocialAuthReturns(failed)
    \/ SocialFailureCloses

SpecAuth == AuthInit /\ [][NextAuth]_vars

----------------------------------------------------------------------------
\* The pure functions, each applied to inputs drawn from a bounded set.

\* All strings over an alphabet up to a length.
Strings(alphabet, n) == UNION {[1..k -> alphabet] : k \in 0..n}

RECURSIVE Repeat(_, _)
Repeat(c, n) == IF n = 0 THEN <<>> ELSE <<c>> \o Repeat(c, n - 1)

\* One character of each class the scorer tells apart, and one of none.
PasswordAlphabet == {"Q", "q", "7", "!", "_"}

PasswordInit ==
    /\ FormInit
    /\ \E head \in Strings(PasswordAlphabet, MaxPwLen \div 2) :
       \E tail \in Strings(PasswordAlphabet, MaxPwLen - MaxPwLen \div 2) :
          fnArg = head \o tail
    /\ fnRes = NotApplied

ApplyCalculatePasswordStrength ==
    /\ ~fnRes.done
    /\ fnRes' = [done |-> TRUE, value |-> calculatePasswordStrength(fnArg)]
    /\ UNCHANGED <<formVars, fnArg>>

SpecPassword == PasswordInit /\ [][ApplyCalculatePasswordStrength]_vars

\* Phone inputs: a run of digits between a short prefix and suffix.
PhoneAlphabet == {"+", "0", "7", " ", "x"}

PhoneInit ==
    /\ FormInit
    /\ \E prefix \in Strings(PhoneAlphabet, MaxAffix) :
       \E suffix \in Strings(PhoneAlphabet, MaxAffix) :
       \E n \in 0..MaxDigitRun :
          fnArg = prefix \o Repeat("5", n) \o suffix
    /\ fnRes = NotApplied

ApplyValidatePhone ==
    /\ ~fnRes.done
    /\ fnRes' = [done |-> TRUE, value |-> validatePhone(fnArg)]
    /\ UNCHANGED <<formVars, fnArg>>

SpecPhone == PhoneInit /\ [][ApplyValidatePhone]_vars

\* Email inputs and the states of the data service they are checked against.
EmailAlphabet == {"a", "A", "@", ".", " "}

ProfileRows ==
    {[email |-> <<"a", "@", "a", ".", "a">>, phone |-> EmptyString],
     [email |-> <<"A", "@", "a", ".", "a">>, phone |-> EmptyString],
     [email |-> <<"a", "@", ".", ".", "a">>, phone |-> EmptyString]}

EmailCheckInit ==
    /\ FormInit
    /\ \E email \in Strings(EmailAlphabet, MaxEmailLen) :
       \E fails \in BOOLEAN :
       \E profiles \in SUBSET ProfileRows :
          fnArg = [email |-> email, svc |-> [fails |-> fails, profiles |-> profiles]]
    /\ fnRes = NotApplied

ApplyCheckEmailAvailability ==
    /\ ~fnRes.done
    /\ fnRes' = [done |-> TRUE, value |-> checkEmailAvailability(fnArg.email, fnArg.svc)]
    /\ UNCHANGED <<formVars, fnArg>>

SpecEmailCheck == EmailCheckInit /\ [][ApplyCheckEmailAvailability]_vars

\* Inputs of validateForm: the rendered form, mode and availability states.
PwNoUpper   == <<"p", "a", "s", "s", "w", "0", "r", "d", "!">>
PwNoLower   == <<"P", "A", "S", "S", "W", "0", "R", "D", "!">>
PwNoDigit   == <<"P", "a", "s", "s", "w", "o", "r", "d", "!">>
PwNoSpecial == <<"P", "a", "s", "s", "w", "0", "r", "d">>
PwShort     == <<"P", "a", "s", "0", "r", "d", "!">>
PhoneBad    == <<"0", "8", "1">>

ValidateFieldValues ==
    [email           |-> {EmptyString, EmailFree, EmailBad},
     password        |-> {EmptyString, PwStrong, PwWeak, PwNoUpper, PwNoLower,
                          PwNoDigit, PwNoSpecial, PwShort},
     confirmPassword |-> {EmptyString, PwStrong, PwNoDigit},
     fullName        |-> {EmptyString, NameShort, NameOk},
     phone           |-> {EmptyString, PhoneFree, PhoneBad}]

\* The availability states handleInputChange leaves behind.
EmailValidationStates ==
    {UnknownValidation, CheckingValidation,
     [isChecking |-> FALSE, isValid |-> "true", message |-> "Email is available"],
     [isChecking |-> FALSE, isValid |-> "false",
      message |-> "This email is already registered"],
     [isChecking |-> FALSE, isValid |-> "false",
      message |-> "Error checking email. Please try again."]}

PhoneValidationStates ==
    {UnknownValidation, CheckingValidation,
     [isChecking |-> FALSE, isValid |-> "true",
      message |-> "Phone number is available"],
     [isChecking |-> FALSE, isValid |-> "false",
      message |-> "This phone number is already registered"],
     [isChecking |-> FALSE, isValid |-> "false",
      message |-> "Error checking phone. Please try again."]}

ValidateInit ==
    /\ FormInit
    /\ \E email \in ValidateFieldValues.email :
       \E password \in ValidateFieldValues.password :
       \E confirmPassword \in ValidateFieldValues.confirmPassword :
       \E fullName \in ValidateFieldValues.fullName :
       \E phone \in ValidateFieldValues.phone :
       \E login \in BOOLEAN :
       \E ev \in EmailValidationStates :
       \E pv \in PhoneValidationStates :
          fnArg = [formData |-> [email |-> email, password |-> password,
                                 confirmPassword |-> confirmPassword,
                                 fullName |-> fullName, phone |-> phone],
                   isLogin |-> login,
                   emailValidation |-> ev, phoneValidation |-> pv]
    /\ fnRes = NotApplied

\* validateForm() as handleSubmit uses it: the error map it sets and whether
\* the submission goes on to the provider call.
ApplyValidateForm ==
    /\ ~fnRes.done
    /\ LET newErrors == validateForm(fnArg.formData, fnArg.isLogin,
                                     fnArg.emailValidation, fnArg.phoneValidation)
       IN  fnRes' = [done |-> TRUE, value |-> newErrors, passes |-> NoErrors(newErrors)]
    /\ UNCHANGED <<formVars, fnArg>>

SpecValidate == ValidateInit /\ [][ApplyValidateForm]_vars

----------------------------------------------------------------------------
\* Steps of the workflow, as the claims speak of them.

\* handleSubmit passed validation: the provider call will be made.
SubmitPasses == ~isLoading /\ isLoading'

\* handleSubmit failed validation: the dialog is shown and it returns.
SubmitBlocked == dialog = NoDialog /\ dialog' = "Validation Error" /\ isLoading' = isLoading

SubmitStep == SubmitPasses \/ SubmitBlocked

FailingService == [fails |-> TRUE, profiles |-> ProfilesTable]

----------------------------------------------------------------------------
\* C1: in register mode a submit made while an availability check of the email
\* (or phone) field is still in flight fails validation (with the "Please wait
\* while we check ... availability" error on that field) and makes no sign-up
\* call, in every interleaving, overlapping checks included. Stated here by
\* its consequence that such a submit never passes validation.
C1_SubmitWhilePendingBlocked ==
    [][ (SubmitStep /\ ~isLogin /\ Len(emailChecks) + Len(phoneChecks) > 0)
            => SubmitBlocked
      ]_vars

\* C2: a registration passes validation (and so reaches signUp) only when the
\* availability result of the email, and of a non-empty phone, is affirmative;
\* an unknown or negative result blocks it.
C2_SignUpOnlyWhenAvailable ==
    [][ (SubmitPasses /\ ~isLogin)
            => /\ emailValidation.isValid = "true"
               /\ (Len(formData.phone) > 0 => phoneValidation.isValid = "true")
      ]_vars

\* C3: every switch between login and register mode leaves all form fields
\* empty, the error map empty and both availability results unknown.
C3_ModeSwitchResets ==
    [][ (isLogin' # isLogin)
            => /\ formData' = EmptyFormData
               /\ errors' = EmptyErrors
               /\ emailValidation' = UnknownValidation
               /\ phoneValidation' = UnknownValidation
      ]_vars

\* C4: a failed login whose error message is exactly "Email not confirmed"
\* shows the resend offer and never the generic failure dialog; every other
\* error message shows the generic dialog; a resend call starts only when the
\* user accepts the offer.
C4_EmailNotConfirmedOffer ==
    [][ /\ SignInReturns("Email not confirmed")
            => (dialog' = "Email Not Confirmed" /\ call'.op # "resend")
        /\ \A msg \in LoginErrorMessages \ {"Email not confirmed"} :
              SignInReturns(msg) => (dialog' = "Login Failed" /\ call'.op # "resend")
        /\ (call.op # "resend" /\ call'.op = "resend")
            => (dialog = "Email Not Confirmed" /\ AnswerResendOffer(TRUE))
        /\ AnswerResendOffer(FALSE) => (call'.op # "resend" /\ ~isLoading')
        /\ (dialog # "Login Failed" /\ dialog' = "Login Failed")
            => \E msg \in LoginErrorMessages \ {"Email not confirmed"} :
                  SignInReturns(msg)
        /\ (dialog = "Login Failed" /\ dialog' # dialog)
            => (call'.op # "resend" /\ dialog' = NoDialog)
      ]_vars

\* Witness of C4: the offer was shown and accepted, the resend call is in flight.
C4_Witness == call.op = "resend" /\ subPc = "resend" /\ sub.isLogin

\* C5: a registration submitted with a full name shorter than 2 characters gets
\* a validation error on fullName and is blocked, whatever the other fields
\* hold; no signUp call ever carries such a name.
C5_ShortFullNameBlocked ==
    /\ [][ (SubmitStep /\ ~isLogin /\ Len(formData.fullName) < 2)
              => /\ SubmitBlocked
                 /\ errors'.fullName =
                       IF Len(formData.fullName) = 0
                       THEN "Full name is required"
                       ELSE "Full name must be at least 2 characters"
         ]_vars
    /\ [](call.op = "signUp" => Len(call.fullName) >= 2)

\* Witness of C5: the one-character name is the only thing wrong with the form.
C5_Witness ==
    /\ ~isLogin
    /\ dialog = "Validation Error"
    /\ formData.fullName = NameShort
    /\ formData.password = PwStrong
    /\ errors = [EmptyErrors EXCEPT
                    !.fullName = "Full name must be at least 2 characters"]

\* C6: for a well-formed email checkEmailAvailability answers "already
\* registered" exactly when the data service reports, without error, a profile
\* whose email is the lowercased input, and "available" when it reports none;
\* for a malformed email it answers the format failure without any query.
C6_EmailAvailabilityResult ==
    fnRes.done =>
        LET email    == fnArg.email
            svc      == fnArg.svc
            r        == fnRes.value
            matching == {p \in svc.profiles : p.email = toLowerCase(email)}
        IN  IF validateEmail(email)
            THEN /\ (r.isValid = FALSE /\ r.message = "This email is already registered")
                        <=> (~svc.fails /\ matching # {})
                 /\ (~svc.fails /\ matching = {})
                        => (r.isValid = TRUE /\ r.message = "Email is available")
                 /\ Len(r.queries) = 1
            ELSE /\ r.isValid = FALSE
                 /\ r.message = "Please enter a valid email format"
                 /\ r.queries = <<>>

\* Witness of C6: an input with a capital letter found registered in lower case.
C6_Witness ==
    /\ fnRes.done
    /\ HasChar(fnArg.email, UpperChars)
    /\ fnRes.value.message = "This email is already registered"

\* C7: a failed data-service query ends the check with the field not checking,
\* invalid, and a generic error message; a registration submitted in an invalid
\* state is blocked with the state's message on the field, whichever message
\* that is.
C7_QueryFailureBlocks ==
    [][ /\ \A i \in DOMAIN emailChecks :
              (Len(emailChecks') < Len(emailChecks)
                 /\ EmailCheckSettles(i, FailingService))
                 => emailValidation' =
                       [isChecking |-> FALSE, isValid |-> "false",
                        message |-> "Error checking email. Please try again."]
        /\ \A i \in DOMAIN phoneChecks :
              (Len(phoneChecks') < Len(phoneChecks)
                 /\ PhoneCheckSettles(i, FailingService))
                 => phoneValidation' =
                       [isChecking |-> FALSE, isValid |-> "false",
                        message |-> "Error checking phone. Please try again."]
        /\ (SubmitStep /\ ~isLogin /\ emailValidation.isValid = "false")
              => /\ SubmitBlocked
                 /\ Len(formData.email) > 0 => errors'.email = emailValidation.message
        /\ (SubmitStep /\ ~isLogin /\ phoneValidation.isValid = "false"
              /\ Len(formData.phone) > 0)
              => /\ SubmitBlocked
                 /\ errors'.phone = phoneValidation.message
      ]_vars

\* Witness of C7: a submit blocked by the message of a failed query alone.
C7_Witness ==
    /\ ~isLogin
    /\ dialog = "Validation Error"
    /\ errors = [EmptyErrors EXCEPT
                    !.email = "Error checking email. Please try again."]

\* The criteria a password satisfies, counted one by one.
CriteriaCount(password) ==
    (IF Len(password) >= 8 THEN 1 ELSE 0)
    + (IF \E i \in DOMAIN password : password[i] \in UpperChars THEN 1 ELSE 0)
    + (IF \E i \in DOMAIN password : password[i] \in LowerChars THEN 1 ELSE 0)
    + (IF \E i \in DOMAIN password : password[i] \in DigitChars THEN 1 ELSE 0)
    + (IF \E i \in DOMAIN password : password[i] \in SpecialChars THEN 1 ELSE 0)

\* C8: the score is the number of satisfied criteria, between 0 and 5, and the
\* label follows from the score alone: 0, 1 Very Weak; 2 Weak; 3 Fair; 4 Good;
\* 5 Strong.
C8_StrengthScore ==
    fnRes.done =>
        LET r == fnRes.value
        IN  /\ r.score = CriteriaCount(fnArg)
            /\ r.score \in 0..5
            /\ r.label = <<"Very Weak", "Very Weak", "Weak", "Fair", "Good",
                           "Strong">>[r.score + 1]

\* Witness of C8: an eight-character password meeting all five criteria.
C8_Witness ==
    /\ fnRes.done
    /\ Len(fnArg) = 8
    /\ fnRes.value.score = 5
    /\ fnRes.value.label = "Strong"

\* An optional "+", then 2 to 15 digits of which the first is not 0.
PhoneShape(s) ==
    LET digits == IF Len(s) > 0 /\ s[1] = "+" THEN Tail(s) ELSE s
    IN  /\ Len(digits) >= 2
        /\ Len(digits) <= 15
        /\ \A i \in DOMAIN digits : digits[i] \in DigitChars
        /\ digits[1] # "0"

\* C9: validatePhone is true exactly for the inputs that, whitespace removed,
\* are an optional "+" followed by 2 to 15 digits not starting with 0.
C9_PhoneFormat ==
    fnRes.done => (fnRes.value <=> PhoneShape(StripWhitespace(fnArg)))

\* Witness of C9: "+", whitespace and 15 digits, accepted.
C9_Witness ==
    /\ fnRes.done
    /\ fnRes.value = TRUE
    /\ HasChar(fnArg, WhitespaceChars)
    /\ fnArg[1] = "+"
    /\ Len(StripWhitespace(fnArg)) = 16

\* C10: once an edit has emptied the email (or phone) field, or the mode has
\* switched to login, the field's availability state is unknown and stays
\* unknown until that field is next edited to a non-empty value in register
\* mode, checks in flight notwithstanding. Stated here for the emptying edit
\* and for what may end an unknown state.
C10_UnknownStaysUnknown ==
    [][ /\ (formData'.email # formData.email /\ Len(formData'.email) = 0)
              => emailValidation' = UnknownValidation
        /\ (formData'.phone # formData.phone /\ Len(formData'.phone) = 0)
              => phoneValidation' = UnknownValidation
        /\ (emailValidation = UnknownValidation /\ emailValidation' # UnknownValidation)
              => (~isLogin /\ formData'.email # formData.email
                  /\ Len(formData'.email) > 0)
        /\ (phoneValidation = UnknownValidation /\ phoneValidation' # UnknownValidation)
              => (~isLogin /\ formData'.phone # formData.phone
                  /\ Len(formData'.phone) > 0)
      ]_vars

\* The availability state a settled check writes.
SettledState(result) ==
    [isChecking |-> FALSE, isValid |-> TriState(result.isValid),
     message |-> result.message]

\* C11: the result of an availability check is applied to the field's
\* availability state only if that check is the most recently requested one of
\* the field; an older check that settles leaves the state of the newer
\* request as it is.
C11_OnlyLatestCheckApplied ==
    [][ /\ \A i \in DOMAIN emailChecks : \A svc \in Services :
              (/\ i < Len(emailChecks)
               /\ emailChecks[i] # emailChecks[Len(emailChecks)]
               /\ EmailCheckSettles(i, svc))
                 => emailValidation' = emailValidation
        /\ \A i \in DOMAIN phoneChecks : \A svc \in Services :
              (/\ i < Len(phoneChecks)
               /\ phoneChecks[i] # phoneChecks[Len(phoneChecks)]
               /\ PhoneCheckSettles(i, svc))
                 => phoneValidation' = phoneValidation
      ]_vars

\* C12: changing the email to another non-empty value while a check is
\* pending cancels nothing: the new check is added to the ones in flight, a
\* check leaves only by settling, and each settling check writes its own
\* result, so that once all have settled the state shown is the result of the
\* one that settled last, whichever was started last.
C12_LastSettledWins ==
    [][ /\ (~isLogin /\ formData'.email # formData.email /\ Len(formData'.email) > 0)
              => emailChecks' = Append(emailChecks, formData'.email)
        /\ Len(emailChecks') >= Len(emailChecks) - 1
        /\ Len(emailChecks') < Len(emailChecks)
              => \E i \in DOMAIN emailChecks : \E svc \in Services :
                    /\ emailChecks' = RemoveAt(emailChecks, i)
                    /\ emailValidation' =
                          SettledState(checkEmailAvailability(emailChecks[i], svc))
      ]_vars

\* Witness of C12: both checks have settled and the field that holds the
\* registered address shows "Email is available", the result of the check
\* started first and settled last.
C12_Witness ==
    /\ ~isLogin
    /\ emailChecks = <<>>
    /\ formData.email = EmailTaken
    /\ emailValidation = [isChecking |-> FALSE, isValid |-> "true",
                          message |-> "Email is available"]

\* C13: while a submission is in flight (isLoading) the controls are disabled:
\* no field value is edited, the mode does not switch, and no social-auth call
\* starts, until the submission settles.
C13_LoadingDisablesControls ==
    [][ (isLoading /\ isLoading')
            => /\ formData' = formData
               /\ isLogin' = isLogin
               /\ isSocialLoading' = isSocialLoading
      ]_vars

\* C14: while a social-auth call is pending (isSocialLoading not null) every
\* other control is disabled: no field value is edited, the mode does not
\* switch, no submission starts and the other provider's call does not start,
\* until the call settles.
C14_SocialDisablesControls ==
    [][ (isSocialLoading # Null /\ isSocialLoading' # Null)
            => /\ formData' = formData
               /\ isLogin' = isLogin
               /\ isLoading' = isLoading
               /\ isSocialLoading' = isSocialLoading
               /\ errors' = errors
      ]_vars

\* C18: in login mode validateForm ignores the availability state: whatever
\* the checking flag, verdict and message of the email and phone states, the
\* error map and the decision to go on to the credential sign-in are the same.
C18_LoginIgnoresAvailability ==
    (fnRes.done /\ fnArg.isLogin) =>
        \A ev \in EmailValidationStates : \A pv \in PhoneValidationStates :
            LET other == validateForm(fnArg.formData, TRUE, ev, pv)
            IN  /\ other = fnRes.value
                /\ NoErrors(other) = fnRes.passes

\* Witness of C18: a login that passes validation although the email state
\* says "already registered" and the phone check is still running.
C18_Witness ==
    /\ fnRes.done
    /\ fnArg.isLogin
    /\ fnArg.emailValidation.isValid = "false"
    /\ fnArg.phoneValidation.isChecking
    /\ fnRes.passes

\* C20: the password policy is enforced on submit in register mode only. In
\* register mode a non-empty password failing any of the five criteria gets
\* "Password must meet all requirements" and the submission is blocked;
\* validatePassword is true exactly when the score is 5; in login mode any
\* non-empty password with a well-formed email passes, whatever the
\* register-only fields hold, and the policy message never appears.
C20_PasswordPolicyRegisterOnly ==
    fnRes.done =>
        LET fd == fnArg.formData
            pw == fd.password
        IN  /\ validatePassword(pw) <=> (calculatePasswordStrength(pw).score = 5)
            /\ (~fnArg.isLogin /\ Len(pw) > 0 /\ CriteriaCount(pw) < 5)
                  => /\ fnRes.value.password = "Password must meet all requirements"
                     /\ ~fnRes.passes
            /\ (~fnArg.isLogin /\ CriteriaCount(pw) = 5)
                  => fnRes.value.password = NoError
            /\ (fnArg.isLogin /\ Len(pw) > 0 /\ validateEmail(fd.email))
                  => fnRes.passes
            /\ fnArg.isLogin
                  => fnRes.value.password # "Password must meet all requirements"

\* Witness of C20: a registration in which a password missing one criterion
\* is the only thing wrong.
C20_Witness ==
    /\ fnRes.done
    /\ ~fnArg.isLogin
    /\ CriteriaCount(fnArg.formData.password) = 4
    /\ fnRes.value = [EmptyErrors EXCEPT
                         !.password = "Password must meet all requirements"]

\* A field edit: formData changes while the mode and the dialog stay.
EditStep == formData' # formData /\ isLogin' = isLogin /\ dialog' = dialog

\* C19: an edit clears the error entry of the edited field only and adds no
\* error: every other field's entry is unchanged; an entry is set or replaced
\* by a message only by a submit attempt, which recomputes the whole map.
C19_EditClearsOwnErrorOnly ==
    [][ /\ EditStep
              => \A f \in Fields :
                    errors'[f] = IF formData'[f] # formData[f] THEN NoError
                                 ELSE errors[f]
        /\ (\E f \in Fields : errors'[f] # errors[f] /\ errors'[f] # NoError)
              => /\ SubmitStep
                 /\ errors' = validateForm(formData, isLogin, emailValidation,
                                           phoneValidation)
      ]_vars

\* Witness of C19: after a blocked submit the email was edited to empty; its
\* entry is gone while the password's entry is still there.
C19_Witness ==
    /\ dialog = NoDialog
    /\ formData.email = EmptyString
    /\ errors.email = NoError
    /\ errors.password = "Password is required"

\* C17: no outcome of a submission is fatal. Every submission that passes
\* validation settles, given that the provider calls return and the dialogs
\* are closed: handleSubmit reaches its end with the loading flag false and no
\* call in flight, whether the provider reported success, bad credentials, an
\* unconfirmed email or a fault; and the loading flag is cleared by nothing
\* but the end of handleSubmit.
C17_SubmissionSettles ==
    /\ isLoading ~> (~isLoading /\ subPc = "idle" /\ call = NoCall)
    /\ [][ (isLoading /\ ~isLoading') => (subPc' = "idle" /\ call' = NoCall) ]_vars
    /\ [](isLoading <=> subPc # "idle")

\* Witness of C17: a login that passed validation was answered "Email not
\* confirmed", the resend was asked for and failed; the submission is about to
\* settle.
C17_Witness ==
    /\ isLoading
    /\ subPc = "awaitDialog"
    /\ dialog = "Resend Failed"

\* C15: the home route is entered only as a consequence of a successful login:
\* only by the closing of the "Login berhasil!" dialog, which is opened only
\* by a credential sign-in that returned no error or by a SIGNED_IN event of a
\* social provider without the verification marker. No other dialog closing
\* (registration, failed login, validation failure, resend, "verified" notice)
\* and no other step navigates.
C15_NavigationOnlyAfterLogin ==
    [][ /\ (~navigated /\ navigated')
              => (dialog = "Login berhasil!" /\ dialog' = NoDialog)
        /\ (dialog # "Login berhasil!" /\ dialog' = "Login berhasil!")
              => \/ (subPc = "signIn" /\ sub.isLogin /\ SignInReturns(NoProviderError))
                 \/ (~hash /\ \E provider \in SessionProviders \ {"email"} :
                                  AuthStateChange("SIGNED_IN", provider))
        /\ (dialog # "Login berhasil!" /\ dialog # NoDialog /\ dialog' # dialog)
              => (~navigated' /\ dialog' = NoDialog)
      ]_vars

\* Witness of C15: the page was left after the SIGNED_IN event of a social
\* provider (the form was not reset, as it is after a credential login).
C15_Witness ==
    /\ navigated
    /\ session = "google"
    /\ formData.email = EmailFree
    /\ subPc = "idle"

C21_RegistrationSuccessResets ==
    [][ (dialog = "Registration Successful!" /\ dialog' # dialog)
            => /\ isLogin'
               /\ formData' = EmptyFormData
               /\ errors' = EmptyErrors
               /\ ~isLoading'
               /\ ~navigated'
               /\ dialog' = NoDialog
      ]_vars

\* Witness of C21: the sign-up succeeded and its dialog is shown, while the
\* form holds a name typed after the submit.
C21_Witness ==
    /\ dialog = "Registration Successful!"
    /\ subPc = "awaitDialog"
    /\ ~sub.isLogin
    /\ formData.fullName # sub.formData.fullName

\* The dialogs of a submission that did not succeed.
FailureDialogs ==
    {"Validation Error", "Login Failed", "Email Not Confirmed", "Resend Failed",
     "Verification Email Sent!", "Registration Failed"}

\* C22: a submission that fails leaves the mode and every field value as the
\* user has them: neither the blocked submit, nor the showing, answering or
\* closing of a failure dialog (validation error, login failure, resend offer
\* declined or accepted, resend result, registration failure), nor the end of
\* such a submission changes formData or isLogin.
C22_FailureKeepsForm ==
    [][ ( \/ SubmitBlocked
          \/ (dialog' \in FailureDialogs /\ dialog' # dialog)
          \/ (dialog \in FailureDialogs /\ dialog' # dialog)
          \/ (subPc \in {"signIn", "signUp", "offerResend", "resend"}
                /\ subPc' # subPc /\ dialog' # "Login berhasil!"
                /\ dialog' # "Registration Successful!")
          \/ (isLoading /\ ~isLoading' /\ dialog # "Registration Successful!"
                /\ dialog' # "Login berhasil!") )
            => (formData' = formData /\ isLogin' = isLogin)
      ]_vars

\* Witness of C22: a registration the provider refused; its failure dialog is
\* shown and the form still holds what was submitted.
C22_Witness ==
    /\ dialog = "Registration Failed"
    /\ subPc = "awaitDialog"
    /\ ~isLogin
    /\ formData = sub.formData
    /\ formData.password = PwStrong

\* C23: the identity provider is sent exactly what passed validation at the
\* submit. The submit keeps the mode and the field values it validated; they
\* stay as kept until the submission ends, whatever is typed meanwhile; the
\* sign-in or sign-up call, and a later resend, carry those values and run in
\* that mode.
C23_CallCarriesSubmittedValues ==
    /\ [][ /\ SubmitPasses
                  => (/\ sub' = [isLogin |-> isLogin, formData |-> formData]
                      /\ NoErrors(validateForm(formData, isLogin, emailValidation,
                                               phoneValidation)))
           /\ (subPc # "idle" /\ subPc' # "idle") => (sub' = sub)
          ]_vars
    /\ [](call.op = "signInWithPassword"
             => /\ sub.isLogin
                /\ call.email = sub.formData.email
                /\ call.password = sub.formData.password)
    /\ [](call.op = "signUp"
             => /\ ~sub.isLogin
                /\ call.email = sub.formData.email
                /\ call.password = sub.formData.password
                /\ call.fullName = sub.formData.fullName
                /\ call.phone = sub.formData.phone)
    /\ [](call.op = "resend"
             => (sub.isLogin /\ call.email = sub.formData.email))

\* Witness of C23: a sign-in call in flight with the submitted address while
\* the email field already holds another value.
C23_Witness ==
    /\ call.op = "signInWithPassword"
    /\ call.email = EmailFree
    /\ formData.email # call.email
    /\ formData.password # call.password

\* C24: at most one authentication operation is in flight. A submission
\* (isLoading) and a social-auth call (isSocialLoading not null) are never
\* pending together, and a call to the provider is in flight only during a
\* submission; while either is pending no submit is handled, no social-auth
\* call starts, the pending social-auth call is not replaced by the other
\* provider's, and the pending submission is not replaced by another.
C24_OneOperationInFlight ==
    /\ [](~(isLoading /\ isSocialLoading # Null))
    /\ [](call # NoCall => (isLoading /\ isSocialLoading = Null))
    /\ [][ /\ (isLoading \/ isSocialLoading # Null) => ~SubmitStep
           /\ (isSocialLoading = Null /\ isSocialLoading' # Null)
                  => (~isLoading /\ ~isLoading')
           /\ (isSocialLoading # Null) => (isSocialLoading' \in {isSocialLoading, Null})
           /\ (isLoading /\ isLoading') => (sub' = sub)
         ]_vars

\* Witness of C24: a social-auth call is pending while the form holds values
\* that a submit would accept.
C24_Witness ==
    /\ isSocialLoading = "google"
    /\ dialog = NoDialog
    /\ formData.email = EmailFree
    /\ formData.password = PwStrong
    /\ NoErrors(validateForm(formData, isLogin, emailValidation, phoneValidation))

====
